---- MODULE Spec2Model ----
(***************************************************************************)
(* create-sf-user: a CSV-driven batch job that creates Salesforce users    *)
(* through a small REST client.                                            *)
(*                                                                         *)
(*   Spec        main() and create_users_from_csv (entry point, importer)  *)
(*   SpecClient  one SalesforceRestApiClient and the calls made on it      *)
(*   SpecParse   parse_json_body applied to a response                     *)
(*                                                                         *)
(* Text that the code takes apart (paths, console answers, response        *)
(* bodies) is a sequence of characters or tokens; text that the code only  *)
(* builds and compares is a string.                                        *)
(***************************************************************************)
EXTENDS Integers, Sequences, FiniteSets, TLC

VARIABLES
    pc,         \* position of the process / of the harness driving the client
    envvar,     \* the ENV environment variable (<<>> when unset)
    answer,     \* what input() returned at the production prompt
    exitCode,   \* sys.exit status, -1 while none
    error,      \* the exception that ended the process, "none" while none
    invoked,    \* number of create_users_from_csv invocations
    opened,     \* whether the CSV file has been opened
    ctor,       \* the client's construction: arguments, session, object built
    client,     \* the SalesforceRestApiClient object: url, base_headers
    authCount,  \* number of init_client() calls (authentications)
    rowsRead,   \* rows csv.DictReader has yielded so far, in file order
    wire,       \* calls of requests.request that were entered, with outcome
    reports,    \* lines printed per row
    last,       \* the call on the client that has just returned
    nCalls,     \* number of calls made on the client
    resp,       \* the response handed to parse_json_body
    parsed      \* what parse_json_body did with it

vars == <<pc, envvar, answer, exitCode, error, invoked, opened, ctor, client,
          authCount, rowsRead, wire, reports, last, nCalls, resp,
          parsed>>

(***************************************************************************)
(* Bounds of the model                                                     *)
(***************************************************************************)
MaxRows == 2

MaxCalls == 2

MaxBodyLen == 3

(***************************************************************************)
(* Python values                                                           *)
(***************************************************************************)
\* An optional argument: <<>> is None, <<v>> is the value v.
None == <<>>

Some(v) == <<v>>

EmptyDict == [k \in {} |-> ""]

\* {**a, **b} and a.update(b): the keys of both, b's value where both have one.
Merge(a, b) ==
    [k \in (DOMAIN a) \cup (DOMAIN b) |-> IF k \in DOMAIN b THEN b[k] ELSE a[k]]

\* `opt or {}`
OrEmpty(opt) == IF opt = None \/ DOMAIN opt[1] = {} THEN EmptyDict ELSE opt[1]

\* str.lstrip("/") on a tokenised path
RECURSIVE lstrip(_)
lstrip(path) ==
    IF path # <<>> /\ Head(path) = "/" THEN lstrip(Tail(path)) ELSE path

(***************************************************************************)
(* json.dumps of a flat dict, given as a sequence of <<key, value>> pairs  *)
(* in insertion order; a value is a str, an int or None.                   *)
(***************************************************************************)
JStr(s) == [t |-> "str", s |-> s, i |-> 0]

JInt(i) == [t |-> "int", s |-> "", i |-> i]

JNull == [t |-> "null", s |-> "", i |-> 0]

json_value(v) ==
    CASE v.t = "int" -> ToString(v.i)
      [] v.t = "null" -> "null"
      [] OTHER -> "\"" \o v.s \o "\""

\* str(v), as an f-string formats v
PyStr(v) ==
    CASE v.t = "int" -> ToString(v.i)
      [] v.t = "null" -> "None"
      [] OTHER -> v.s

RECURSIVE json_items(_)
json_items(items) ==
    IF items = <<>> THEN ""
    ELSE "\"" \o items[1][1] \o "\": " \o json_value(items[1][2])
         \o (IF Len(items) > 1 THEN ", " ELSE "") \o json_items(Tail(items))

json_dumps(items) == "{" \o json_items(items) \o "}"

(***************************************************************************)
(* Settings                                                                *)
(***************************************************************************)
\* settings.SF_API_BASE_URL (a name starting SF_ reads as a fairness operator)
API_BASE_URL == "https://example.my.salesforce.com"

\* os.getenv("ENV", "dev")
ConfigEnv(v) == IF v = None THEN "dev" ELSE v[1]

(***************************************************************************)
(* The network: what one call of requests.request can come to              *)
(***************************************************************************)
DEFAULT_TIMEOUT_SECONDS == 30

HTTP_500_INTERNAL_SERVER_ERROR == 500

StatusCodes == {201, 304, 400, 503}

\* ConnectionError stands for every RequestException raised by the transport
\* (connection, DNS, timeout); ValueError for an exception of another class.
NetExceptions == {"ConnectionError", "ValueError"}

NetOutcomes == [exc : NetExceptions, status : {0}]
               \cup [exc : {"none"}, status : StatusCodes]

\* Response.raise_for_status(): HTTPError for 400 <= status < 600
raise_for_status(status) == status >= 400 /\ status < 600

ServerResponse(status) ==
    [status_code |-> status, origin |-> "server", text |-> <<"[", "]">>]

\* requests.Response() with status_code set to 500
ErrorResponse ==
    [status_code |-> HTTP_500_INTERNAL_SERVER_ERROR, origin |-> "constructed",
     text |-> <<>>]

(***************************************************************************)
(* SalesforceRestApiClient                                                 *)
(***************************************************************************)
DefaultHeaders ==
    ("Content-Type" :> "application/json") @@ ("Accept" :> "*/*")

\* __init__ once init_client() has returned a session with headers `session`
NewClient(path, additional_headers, session) ==
    LET base == Merge(DefaultHeaders, session)
    IN  [url |-> <<API_BASE_URL, "/">> \o lstrip(path),
         base_headers |->
            IF additional_headers # None /\ DOMAIN additional_headers[1] # {}
            THEN Merge(base, additional_headers[1])
            ELSE base]

\* Faulty variant: the merge with the operands swapped, so that base headers win.
merged_headers_base_wins(self, headers) ==
    Merge(OrEmpty(headers), self.base_headers)

\* merged_headers of send_request
merged_headers(self, headers) == Merge(self.base_headers, OrEmpty(headers))

\* The keyword arguments send_request itself gives to requests.request.
RequestKeywords == {"method", "url", "headers", "timeout"}

\* What leaves a call when an exception propagates instead of a response.
NoResponse == [status_code |-> 0, origin |-> "none", text |-> <<>>]

\* The exception classes caught by `except RequestException`.
RequestExceptions == {"ConnectionError", "HTTPError"}

\* Faulty variant: the try block without raise_for_status().
try_request_unchecked(self, method, merged, timeout, kwargs, net) ==
    LET req == [method |-> method, url |-> self.url, headers |-> merged,
                timeout |-> timeout, kwargs |-> kwargs, outcome |-> net]
    IN  IF (DOMAIN kwargs) \cap RequestKeywords # {}
        THEN [exc |-> "TypeError", response |-> NoResponse, sent |-> <<>>]
        ELSE IF net.exc # "none"
        THEN [exc |-> net.exc, response |-> NoResponse, sent |-> <<req>>]
        ELSE [exc |-> "none", response |-> ServerResponse(net.status),
              sent |-> <<req>>]

\* The try block of send_request: requests.request(method=, url=self.url,
\* headers=, timeout=, **kwargs), then raise_for_status(). A keyword of kwargs
\* that repeats one of the four given by name is a TypeError raised while the
\* call is being made, before anything is sent.
try_request(self, method, merged, timeout, kwargs, net) ==
    LET req == [method |-> method, url |-> self.url, headers |-> merged,
                timeout |-> timeout, kwargs |-> kwargs, outcome |-> net]
    IN  IF (DOMAIN kwargs) \cap RequestKeywords # {}
        THEN [exc |-> "TypeError", response |-> NoResponse, sent |-> <<>>]
        ELSE IF net.exc # "none"
        THEN [exc |-> net.exc, response |-> NoResponse, sent |-> <<req>>]
        ELSE IF raise_for_status(net.status)
        THEN [exc |-> "HTTPError", response |-> NoResponse, sent |-> <<req>>]
        ELSE [exc |-> "none", response |-> ServerResponse(net.status),
              sent |-> <<req>>]

\* Faulty variant: the merged headers are written back into the client
\* (self.base_headers.update(headers)).
send_request_updating(self, method, headers, timeout, kwargs, net) ==
    LET merged == Merge(self.base_headers, OrEmpty(headers))
        t == try_request(self, method, merged, timeout, kwargs, net)
    IN  [raises |-> "none",
         response |-> IF t.exc = "none" THEN t.response ELSE ErrorResponse,
         sent |-> t.sent,
         self |-> [self EXCEPT !.base_headers = merged]]

\* send_request: the response returned (or the exception that propagates), the
\* calls of requests.request that were entered, and the client object as the
\* call leaves it. The two except clauses build the same error response.
send_request(self, method, headers, timeout, kwargs, net) ==
    LET t == try_request(self, method, merged_headers(self, headers), timeout,
                         kwargs, net)
    IN  IF t.exc = "none"
        THEN [raises |-> "none", response |-> t.response, sent |-> t.sent,
              self |-> self]
        ELSE IF t.exc \in RequestExceptions
        THEN [raises |-> "none", response |-> ErrorResponse, sent |-> t.sent,
              self |-> self]
        ELSE [raises |-> "none", response |-> ErrorResponse, sent |-> t.sent,
              self |-> self]

\* get/post/patch(**kwargs): `headers` and `timeout` among the keywords bind
\* to send_request's parameters, the others stay in its kwargs.
Forward(self, method, kw, net) ==
    send_request(self, method,
                 IF "headers" \in DOMAIN kw THEN Some(kw["headers"]) ELSE None,
                 IF "timeout" \in DOMAIN kw THEN kw["timeout"]
                 ELSE DEFAULT_TIMEOUT_SECONDS,
                 [k \in (DOMAIN kw) \ {"headers", "timeout"} |-> kw[k]],
                 net)

get(self, kw, net) == Forward(self, "GET", kw, net)

post(self, kw, net) == Forward(self, "POST", kw, net)

patch(self, kw, net) == Forward(self, "PATCH", kw, net)

composite_url == <<API_BASE_URL, "/", "services/data/v52.0/composite">>

composite_request(self, composite_data, net) ==
    LET request_data == json_dumps(composite_data)
    IN  post(self,
             [k \in {"url", "data", "headers"} |->
                CASE k = "url" -> composite_url
                  [] k = "data" -> request_data
                  [] OTHER ->
                       ("Content-Length" :> ToString(Len(request_data)))],
             net)

(***************************************************************************)
(* SpecClient: a client is constructed, then called any number of times    *)
(***************************************************************************)
USER_PATH == "services/data/v50.0/sobjects/User"

Paths == { <<"/", USER_PATH>>, <<USER_PATH>>,
           <<"/", "/", "services/data/v52.0/composite">> }

\* The header names a session, the constructor's caller or a call's caller
\* supplies in the model; each level marks its values with its own name.
LevelNames == {"Content-Type", "Authorization"}

HeaderDicts(level) == UNION {[S -> {level}] : S \in SUBSET LevelNames}

OptHeaderDicts(level) == {None} \cup {Some(d) : d \in HeaderDicts(level)}

CompositeData == { <<>>,
                   << <<"a", JInt(1)>> >>,
                   << <<"a", JInt(10)>>, <<"b", JStr("x")>> >> }

\* Keyword arguments of a direct get/post/patch call.
CallKeywords ==
    UNION {[S -> {0}] : S \in SUBSET {"headers", "data", "url"}}

KwOf(shape, h) ==
    [k \in DOMAIN shape |->
        CASE k = "headers" -> h
          [] k = "data" -> "{}"
          [] OTHER -> composite_url]

NoCall == [op |-> "none", args |-> <<>>, net |-> <<>>,
           response |-> NoResponse, raises |-> "none"]

NotParsed == [kind |-> "pending", exc |-> "none", value |-> <<>>]

NoClient == [url |-> <<>>, base_headers |-> EmptyDict]

NoCtor == [path |-> <<>>, additional_headers |-> None, session |-> EmptyDict,
           built |-> NoClient]

Idle ==
    /\ envvar = None /\ answer = <<>> /\ exitCode = -1 /\ error = "none"
    /\ invoked = 0 /\ opened = FALSE /\ ctor = NoCtor /\ client = NoClient
    /\ authCount = 0 /\ rowsRead = <<>> /\ wire = <<>> /\ reports = <<>>
    /\ last = NoCall /\ nCalls = 0 /\ resp = NoResponse /\ parsed = NotParsed

InitClient == pc = "new" /\ Idle

\* SalesforceRestApiClient(path, additional_headers): init_client()
\* authenticates and raises when the login is refused.
ClientConstruct ==
    /\ pc = "new"
    /\ authCount' = authCount + 1
    /\ \E path \in Paths, add \in OptHeaderDicts("additional"),
          login \in {None} \cup {Some(d) : d \in HeaderDicts("session")} :
          IF login = None
          THEN /\ pc' = "failed"
               /\ error' = "SalesforceAuthenticationFailed"
               /\ UNCHANGED <<ctor, client>>
          ELSE /\ pc' = "ready"
               /\ ctor' = [path |-> path, additional_headers |-> add,
                           session |-> login[1],
                           built |-> NewClient(path, add, login[1])]
               /\ client' = NewClient(path, add, login[1])
               /\ error' = error
    /\ UNCHANGED <<envvar, answer, exitCode, invoked, opened, rowsRead, wire,
                   reports, last, nCalls, resp, parsed>>

\* The state after a call that returned r.
Called(op, args, net, r) ==
    /\ client' = r.self
    /\ wire' = r.sent
    /\ last' = [op |-> op, args |-> args, net |-> net,
                response |-> r.response, raises |-> r.raises]
    /\ pc' = "returned"
    /\ nCalls' = nCalls + 1
    /\ UNCHANGED <<envvar, answer, exitCode, error, invoked, opened, ctor,
                   authCount, rowsRead, reports, resp, parsed>>

\* The caller takes the response and goes on to its next call.
ClientReturn ==
    /\ pc = "returned"
    /\ nCalls < MaxCalls
    /\ pc' = "ready"
    /\ last' = NoCall
    /\ wire' = <<>>
    /\ UNCHANGED <<envvar, answer, exitCode, error, invoked, opened, ctor,
                   client, authCount, rowsRead, reports, nCalls, resp, parsed>>

ClientGet ==
    /\ pc = "ready"
    /\ \E shape \in CallKeywords, h \in HeaderDicts("call"),
          net \in NetOutcomes :
          LET kw == KwOf(shape, h)
          IN  Called("get", kw, net, get(client, kw, net))

ClientPost ==
    /\ pc = "ready"
    /\ \E shape \in CallKeywords, h \in HeaderDicts("call"),
          net \in NetOutcomes :
          LET kw == KwOf(shape, h)
          IN  Called("post", kw, net, post(client, kw, net))

ClientPatch ==
    /\ pc = "ready"
    /\ \E shape \in CallKeywords, h \in HeaderDicts("call"),
          net \in NetOutcomes :
          LET kw == KwOf(shape, h)
          IN  Called("patch", kw, net, patch(client, kw, net))

ClientSendRequest ==
    /\ pc = "ready"
    /\ \E h \in OptHeaderDicts("call"), timeout \in {DEFAULT_TIMEOUT_SECONDS, 5},
          shape \in {s \in CallKeywords : "headers" \notin DOMAIN s},
          net \in NetOutcomes :
          LET kw == KwOf(shape, EmptyDict)
              args == [headers |-> h, timeout |-> timeout, kwargs |-> kw]
          IN  Called("send_request", args, net,
                     send_request(client, "DELETE", h, timeout, kw, net))

ClientComposite ==
    /\ pc = "ready"
    /\ \E data \in CompositeData, net \in NetOutcomes :
          Called("composite_request", data, net,
                 composite_request(client, data, net))

NextClient ==
    \/ ClientConstruct
    \/ ClientGet
    \/ ClientPost
    \/ ClientPatch
    \/ ClientSendRequest
    \/ ClientComposite
    \/ ClientReturn

SpecClient == InitClient /\ [][NextClient]_vars

(***************************************************************************)
(* parse_json_body                                                         *)
(*                                                                         *)
(* A body is a sequence of characters over "[", "]", "1" and "x"; the JSON *)
(* texts among them are the numbers 1, 11, ... and the arrays of at most   *)
(* one element.                                                            *)
(***************************************************************************)
JNum(n) == [kind |-> "num", n |-> n, items |-> <<>>]

JArr(items) == [kind |-> "arr", n |-> 0, items |-> items]

RECURSIVE DigitsEnd(_, _)
\* The index after the run of digits that starts at i.
DigitsEnd(s, i) ==
    IF i <= Len(s) /\ s[i] = "1" THEN DigitsEnd(s, i + 1) ELSE i

RECURSIVE Repunit(_)
Repunit(k) == IF k = 0 THEN 0 ELSE 10 * Repunit(k - 1) + 1

RECURSIVE scan_value(_, _)
\* The JSON value that starts at s[i], and the index after it.
scan_value(s, i) ==
    LET fail == [ok |-> FALSE, next |-> i, val |-> JNum(0)]
    IN  IF i > Len(s) THEN fail
        ELSE IF s[i] = "1"
        THEN [ok |-> TRUE, next |-> DigitsEnd(s, i),
              val |-> JNum(Repunit(DigitsEnd(s, i) - i))]
        ELSE IF s[i] = "["
        THEN IF i + 1 <= Len(s) /\ s[i + 1] = "]"
             THEN [ok |-> TRUE, next |-> i + 2, val |-> JArr(<<>>)]
             ELSE LET inner == scan_value(s, i + 1)
                  IN  IF inner.ok /\ inner.next <= Len(s)
                         /\ s[inner.next] = "]"
                      THEN [ok |-> TRUE, next |-> inner.next + 1,
                            val |-> JArr(<<inner.val>>)]
                      ELSE fail
        ELSE fail

\* response.json(): the decoded body, or JSONDecodeError
response_json(response) ==
    LET r == scan_value(response.text, 1)
    IN  IF r.ok /\ r.next = Len(response.text) + 1
        THEN [kind |-> "return", exc |-> "none", value |-> r.val]
        ELSE [kind |-> "raise", exc |-> "JSONDecodeError", value |-> JNum(0)]

\* Faulty variant: no except clause.
parse_json_body_uncaught(response) == response_json(response)

parse_json_body(response) ==
    LET r == response_json(response)
    IN  IF r.kind = "raise" /\ r.exc = "JSONDecodeError"
        THEN [kind |-> "return", exc |-> "none",
              value |-> [message |-> "response.json() failed",
                         response |-> response.text]]
        ELSE r

(***************************************************************************)
(* SpecParse: parse_json_body applied to one response                      *)
(***************************************************************************)
BodyChars == {"[", "]", "1", "x"}

Bodies == UNION {[1..n -> BodyChars] : n \in 0..MaxBodyLen}

ParseInputs ==
    {[status_code |-> 200, origin |-> "server", text |-> b] : b \in Bodies}
    \cup {ErrorResponse}

InitParse ==
    /\ pc = "parse"
    /\ resp \in ParseInputs
    /\ envvar = None /\ answer = <<>> /\ exitCode = -1 /\ error = "none"
    /\ invoked = 0 /\ opened = FALSE /\ ctor = NoCtor /\ client = NoClient
    /\ authCount = 0 /\ rowsRead = <<>> /\ wire = <<>> /\ reports = <<>>
    /\ last = NoCall /\ nCalls = 0 /\ parsed = NotParsed

ParseJsonBody ==
    /\ pc = "parse"
    /\ parsed' = parse_json_body(resp)
    /\ pc' = "parsed"
    /\ UNCHANGED <<envvar, answer, exitCode, error, invoked, opened, ctor,
                   client, authCount, rowsRead, wire, reports, last, nCalls,
                   resp>>

NextParse == ParseJsonBody

SpecParse == InitParse /\ [][NextParse]_vars

(***************************************************************************)
(* create_users_from_csv                                                   *)
(***************************************************************************)
\* The keys of user_record, in the order the dict display evaluates them.
Columns == <<"FirstName", "LastName", "Email", "Username", "Alias",
             "TimeZoneSidKey", "LocaleSidKey", "EmailEncodingKey",
             "LanguageLocaleKey", "ProfileId">>

ColumnSet == {Columns[i] : i \in DOMAIN Columns}

\* The user_record display of one row: the first key the row lacks raises
\* KeyError before any later key is looked up.
build_user_record(row) ==
    LET missing == {i \in DOMAIN Columns : Columns[i] \notin DOMAIN row}
    IN  IF missing = {}
        THEN [exc |-> "none", key |-> "",
              record |-> [i \in DOMAIN Columns |->
                            <<Columns[i], row[Columns[i]]>>]]
        ELSE [exc |-> "KeyError",
              key |-> Columns[CHOOSE i \in missing : \A j \in missing : i <= j],
              record |-> <<>>]

\* row.get(key, default), formatted
row_get(row, key, default) ==
    IF key \in DOMAIN row THEN PyStr(row[key]) ELSE default

\* repr of a requests.Response
ResponseRepr(r) == "<Response [" \o ToString(r.status_code) \o "]>"

\* Faulty variant: a create call that came back with an error status is made again.
row_step_retrying(self, row, net) ==
    LET b == build_user_record(row)
        r == post(self, [k \in {"data"} |-> json_dumps(b.record)], net)
    IN  IF b.exc # "none"
        THEN [raises |-> "none", sent |-> <<>>, self |-> self,
              report |-> [kind |-> "Failed to create user",
                          name |-> row_get(row, "Username", "No Username"),
                          detail |-> "'" \o b.key \o "'"]]
        ELSE [raises |-> "none",
              sent |-> IF r.response.status_code = 500
                       THEN r.sent \o r.sent ELSE r.sent,
              self |-> r.self,
              report |-> [kind |-> "Successfully created user",
                          name |-> PyStr(row["Username"]),
                          detail |-> ResponseRepr(r.response)]]

\* Faulty variant: the except clause reads row["Username"] instead of row.get(...).
row_step_unguarded(self, row, net) ==
    LET b == build_user_record(row)
        r == post(self, [k \in {"data"} |-> json_dumps(b.record)], net)
    IN  IF b.exc # "none"
        THEN IF "Username" \in DOMAIN row
             THEN [raises |-> "none", sent |-> <<>>, self |-> self,
                   report |-> [kind |-> "Failed to create user",
                               name |-> PyStr(row["Username"]),
                               detail |-> "'" \o b.key \o "'"]]
             ELSE [raises |-> "KeyError", sent |-> <<>>, self |-> self,
                   report |-> [kind |-> "", name |-> "", detail |-> ""]]
        ELSE [raises |-> "none", sent |-> r.sent, self |-> r.self,
              report |-> [kind |-> "Successfully created user",
                          name |-> PyStr(row["Username"]),
                          detail |-> ResponseRepr(r.response)]]

\* The body of the for loop on one row: the try block builds the record,
\* posts it and prints the success line; the except clause prints the failure
\* line for whatever exception the try block raised. What post returns is
\* printed, not examined.
row_step(self, row, net) ==
    LET b == build_user_record(row)
        r == post(self, [k \in {"data"} |-> json_dumps(b.record)], net)
    IN  IF b.exc # "none"
        THEN [raises |-> "none", sent |-> <<>>, self |-> self,
              report |-> [kind |-> "Failed to create user",
                          name |-> row_get(row, "Username", "No Username"),
                          detail |-> "'" \o b.key \o "'"]]
        ELSE IF r.raises # "none"
        THEN [raises |-> "none", sent |-> r.sent, self |-> r.self,
              report |-> [kind |-> "Failed to create user",
                          name |-> row_get(row, "Username", "No Username"),
                          detail |-> r.raises]]
        ELSE [raises |-> "none", sent |-> r.sent, self |-> r.self,
              report |-> [kind |-> "Successfully created user",
                          name |-> PyStr(row["Username"]),
                          detail |-> ResponseRepr(r.response)]]

(***************************************************************************)
(* main                                                                    *)
(***************************************************************************)
\* str.lower() on the characters the model's answers are made of
LowerChar(c) ==
    CASE c = "Y" -> "y"
      [] c = "E" -> "e"
      [] c = "S" -> "s"
      [] c = "N" -> "n"
      [] c = "O" -> "o"
      [] OTHER -> c

lower(str) == [i \in DOMAIN str |-> LowerChar(str[i])]

\* Faulty variant: the answer is compared as typed.
Accepts_as_typed(confirm) == confirm \in {<<"y", "e", "s">>, <<"y">>}

\* confirm.lower() in ("yes", "y")
Accepts(confirm) == lower(confirm) \in {<<"y", "e", "s">>, <<"y">>}

(***************************************************************************)
(* Spec: the process from interpreter start to exit                        *)
(***************************************************************************)
EnvValues == {None, Some("prod"), Some("PROD")}

Answers == { <<"y", "e", "s">>, <<"Y">>, <<"Y", "e", "S">>,
             <<"n", "o">>, <<>>, <<"y", "e", "s", " ">> }

Usernames == {"u1", "u2"}

Droppable == {"FirstName", "Username", "ProfileId"}

\* Rows as csv.DictReader yields them: a mapping from the header's columns to
\* the line's cells, None where the line is shorter than the header.
CsvRows ==
    {[c \in ColumnSet \ m |-> IF c = "Username" THEN JStr(u) ELSE JStr("x")] :
        m \in SUBSET Droppable, u \in Usernames}
    \cup
    {[c \in ColumnSet |->
        CASE c = "Username" -> JStr(u)
          [] c = "ProfileId" -> JNull
          [] OTHER -> JStr("x")] : u \in {"u1"}}
    \cup
    {[c \in ColumnSet \ {"FirstName"} |->
        IF c \in {"Username", "ProfileId"} THEN JNull ELSE JStr("x")]}

Init ==
    /\ pc = "start"
    /\ envvar \in EnvValues
    /\ answer = <<>> /\ exitCode = -1 /\ error = "none"
    /\ invoked = 0 /\ opened = FALSE /\ ctor = NoCtor /\ client = NoClient
    /\ authCount = 0 /\ rowsRead = <<>> /\ wire = <<>> /\ reports = <<>>
    /\ last = NoCall /\ nCalls = 0 /\ resp = NoResponse /\ parsed = NotParsed

\* Importing main.py's modules runs `settings = Settings()`, which raises a
\* validation error when a required setting is absent.
LoadModules ==
    /\ pc = "start"
    /\ \E valid \in BOOLEAN :
          IF valid THEN pc' = "main" /\ error' = error
          ELSE pc' = "crashed" /\ error' = "ValidationError"
    /\ UNCHANGED <<envvar, answer, exitCode, invoked, opened, ctor, client,
                   authCount, rowsRead, wire, reports, last, nCalls, resp,
                   parsed>>

\* main up to the test of env_name
Main ==
    /\ pc = "main"
    /\ pc' = IF ConfigEnv(envvar) = "prod" THEN "prompt" ELSE "run"
    /\ UNCHANGED <<envvar, answer, exitCode, error, invoked, opened, ctor,
                   client, authCount, rowsRead, wire, reports, last, nCalls,
                   resp, parsed>>

\* The production prompt
Prompt ==
    /\ pc = "prompt"
    /\ \E confirm \in Answers :
          /\ answer' = confirm
          /\ IF Accepts(confirm)
             THEN pc' = "run" /\ exitCode' = exitCode
             ELSE pc' = "exited" /\ exitCode' = 1
    /\ UNCHANGED <<envvar, error, invoked, opened, ctor, client, authCount,
                   rowsRead, wire, reports, last, nCalls, resp, parsed>>

\* create_users_from_csv("src/files/...csv") is called
CallImporter ==
    /\ pc = "run"
    /\ invoked' = invoked + 1
    /\ pc' = "construct"
    /\ UNCHANGED <<envvar, answer, exitCode, error, opened, ctor, client,
                   authCount, rowsRead, wire, reports, last, nCalls, resp,
                   parsed>>

ImporterPath == <<"/", USER_PATH>>

\* What a login can come to: refused (None), or a session whose headers carry
\* the session id.
Logins ==
    {None} \cup {Some(d) : d \in {h \in HeaderDicts("session") :
                                    "Authorization" \in DOMAIN h}}

\* Faulty variant: a refused login is noted and the importer carries on.
Construct_swallowing ==
    /\ pc = "construct"
    /\ authCount' = authCount + 1
    /\ \E login \in Logins :
          IF login = None
          THEN /\ pc' = "open"
               /\ error' = "SalesforceAuthenticationFailed"
               /\ UNCHANGED <<ctor, client>>
          ELSE /\ pc' = "open"
               /\ ctor' = [path |-> ImporterPath, additional_headers |-> None,
                           session |-> login[1],
                           built |-> NewClient(ImporterPath, None, login[1])]
               /\ client' = NewClient(ImporterPath, None, login[1])
               /\ error' = error
    /\ UNCHANGED <<envvar, answer, exitCode, invoked, opened, rowsRead, wire,
                   reports, last, nCalls, resp, parsed>>

\* sf = SalesforceRestApiClient(path=...): a refused login raises out of
\* create_users_from_csv and main.
Construct ==
    /\ pc = "construct"
    /\ authCount' = authCount + 1
    /\ \E login \in Logins :
          IF login = None
          THEN /\ pc' = "crashed"
               /\ error' = "SalesforceAuthenticationFailed"
               /\ UNCHANGED <<ctor, client>>
          ELSE /\ pc' = "open"
               /\ ctor' = [path |-> ImporterPath, additional_headers |-> None,
                           session |-> login[1],
                           built |-> NewClient(ImporterPath, None, login[1])]
               /\ client' = NewClient(ImporterPath, None, login[1])
               /\ error' = error
    /\ UNCHANGED <<envvar, answer, exitCode, invoked, opened, rowsRead, wire,
                   reports, last, nCalls, resp, parsed>>

\* open(csv_file_path) and csv.DictReader(f)
OpenCsv ==
    /\ pc = "open"
    /\ \E found \in BOOLEAN :
          IF found THEN pc' = "loop" /\ opened' = TRUE /\ error' = error
          ELSE pc' = "crashed" /\ opened' = FALSE
               /\ error' = "FileNotFoundError"
    /\ UNCHANGED <<envvar, answer, exitCode, invoked, ctor, client, authCount,
                   rowsRead, wire, reports, last, nCalls, resp, parsed>>

\* One iteration of the for loop: the reader yields the next row.
ProcessRow ==
    /\ pc = "loop"
    /\ Len(rowsRead) < MaxRows
    /\ \E row \in CsvRows, net \in NetOutcomes :
          LET r == row_step(client, row, net)
          IN  /\ rowsRead' = Append(rowsRead, row)
              /\ wire' = wire \o r.sent
              /\ client' = r.self
              /\ IF r.raises = "none"
                 THEN /\ reports' = Append(reports, r.report)
                      /\ UNCHANGED <<pc, error>>
                 ELSE /\ pc' = "crashed"
                      /\ error' = r.raises
                      /\ UNCHANGED reports
    /\ UNCHANGED <<envvar, answer, exitCode, invoked, opened, ctor, authCount,
                   last, nCalls, resp, parsed>>

\* The reader is exhausted: the importer and main return.
EndOfFile ==
    /\ pc = "loop"
    /\ pc' = "done"
    /\ exitCode' = 0
    /\ UNCHANGED <<envvar, answer, error, invoked, opened, ctor, client,
                   authCount, rowsRead, wire, reports, last, nCalls, resp,
                   parsed>>

Next ==
    \/ LoadModules
    \/ Main
    \/ Prompt
    \/ CallImporter
    \/ Construct
    \/ OpenCsv
    \/ ProcessRow
    \/ EndOfFile

Spec == Init /\ [][Next]_vars

(***************************************************************************)
(* Properties of the client (SpecClient)                                   *)
(***************************************************************************)
ClientOps == {"get", "post", "patch", "send_request", "composite_request"}

Returned == pc = "returned" /\ last.op \in ClientOps

Is2xx(net) == net.exc = "none" /\ net.status >= 200 /\ net.status < 300

IsFailure(net) ==
    \/ net.exc = "ConnectionError"
    \/ net.exc = "none" /\ net.status >= 400 /\ net.status < 600

\* C2 (as claimed): composite_request(data) issues exactly one HTTP POST, to
\* the hardcoded composite endpoint and not to the client's own url, with the
\* JSON serialization of data as body and a Content-Length header equal to
\* the body's length in bytes.
C2_CompositeIssuesOnePost ==
    (Returned /\ last.op = "composite_request") =>
        /\ Len(wire) = 1
        /\ wire[1].method = "POST"
        /\ wire[1].url = composite_url
        /\ wire[1].kwargs["data"] = json_dumps(last.args)
        /\ wire[1].headers["Content-Length"]
              = ToString(Len(json_dumps(last.args)))

\* C3: send_request, and so get/post/patch, lets no exception through; a
\* transport failure or a 4xx/5xx response comes back as a constructed
\* response with status 500, a 2xx response comes back as the server's own.
C3_NeverThrows ==
    Returned =>
        /\ last.raises = "none"
        /\ \A i \in 1..Len(wire) :
              /\ IsFailure(wire[i].outcome) => last.response = ErrorResponse
              /\ Is2xx(wire[i].outcome) =>
                    last.response = ServerResponse(wire[i].outcome.status)
        /\ last.response.origin = "constructed" =>
              last.response.status_code = 500

C3_Witness ==
    /\ Returned
    /\ last.op = "post"
    /\ Len(wire) = 1
    /\ wire[1].outcome.status = 503
    /\ last.response = ErrorResponse

\* The headers given at call time: the `headers` keyword of get/post/patch,
\* the headers argument of send_request, composite_request's Content-Length.
CallTimeHeaders ==
    CASE last.op \in {"get", "post", "patch"} ->
           IF "headers" \in DOMAIN last.args THEN last.args["headers"]
           ELSE EmptyDict
      [] last.op = "send_request" ->
           IF last.args.headers = None THEN EmptyDict ELSE last.args.headers[1]
      [] OTHER ->
           ("Content-Length" :> ToString(Len(json_dumps(last.args))))

AdditionalHeaders ==
    IF ctor.additional_headers = None THEN EmptyDict
    ELSE ctor.additional_headers[1]

AllHeaderNames == LevelNames \cup DOMAIN DefaultHeaders \cup {"Content-Length"}

\* The levels a header can come from, highest precedence first.
Levels == <<CallTimeHeaders, AdditionalHeaders, ctor.session, DefaultHeaders>>

SuppliedAt(name) == {i \in 1..4 : name \in DOMAIN Levels[i]}

Lowest(S) == CHOOSE i \in S : \A j \in S : i <= j

\* C9: each header of a request that is sent has the value of the highest
\* level supplying its name: call time, then the constructor's additional
\* headers, then the session, then the defaults; a name no level supplies is
\* absent.
C9_HeaderPrecedence ==
    Returned =>
        \A i \in 1..Len(wire) : \A name \in AllHeaderNames :
            IF SuppliedAt(name) = {}
            THEN name \notin DOMAIN wire[i].headers
            ELSE /\ name \in DOMAIN wire[i].headers
                 /\ wire[i].headers[name]
                       = Levels[Lowest(SuppliedAt(name))][name]

C9_Witness ==
    /\ Returned
    /\ Len(wire) = 1
    /\ SuppliedAt("Content-Type") = {1, 2, 3, 4}
    /\ SuppliedAt("Authorization") = {3}
    /\ wire[1].headers["Content-Type"] = "call"
    /\ wire[1].headers["Authorization"] = "session"

\* C10: the client is read-only once constructed: whatever calls were made,
\* with whatever headers and outcome, url and base_headers are what the
\* constructor built, and authentication has happened exactly once.
C10_ClientReadOnly ==
    pc \in {"ready", "returned"} => client = ctor.built /\ authCount = 1

C10_Witness ==
    /\ Returned
    /\ nCalls >= 2
    /\ last.response = ErrorResponse
    /\ DOMAIN CallTimeHeaders # {}
    /\ client = ctor.built
    /\ client.url # <<>>

(***************************************************************************)
(* Properties of the importer and of main (Spec)                           *)
(***************************************************************************)
Complete(row) == ColumnSet \subseteq DOMAIN row

\* The create call made for row i, given that every complete row before it
\* made exactly one: its position in wire.
CallOf(i) == Cardinality({j \in 1..i : Complete(rowsRead[j])})

\* C1 (as claimed): a row whose create call ends in a non-2xx response or in
\* a transport failure is reported as a failure, never as a success, and the
\* rows after it are still processed.
C1_FailedCallReportedAsFailure ==
    \A i \in 1..Len(reports) :
        (/\ Complete(rowsRead[i])
         /\ CallOf(i) <= Len(wire)
         /\ ~Is2xx(wire[CallOf(i)].outcome))
        => /\ reports[i].kind = "Failed to create user"
           /\ pc \in {"loop", "done"}

\* C4: when every row read has all ten columns, exactly one POST has been
\* issued per row, to the User resource, carrying that row's record, and the
\* calls are in the order of the rows, whatever each call came to.
C4_OneCreateCallPerRowInOrder ==
    (\A i \in 1..Len(rowsRead) : Complete(rowsRead[i])) =>
        /\ Len(wire) = Len(rowsRead)
        /\ \A i \in 1..Len(rowsRead) :
              /\ wire[i].method = "POST"
              /\ wire[i].url = <<API_BASE_URL, "/", USER_PATH>>
              /\ wire[i].kwargs["data"]
                    = json_dumps(build_user_record(rowsRead[i]).record)

C4_Witness ==
    /\ pc = "done"
    /\ Len(rowsRead) = 2
    /\ \A i \in 1..2 : Complete(rowsRead[i])
    /\ rowsRead[1]["Username"] = JStr("u2")
    /\ rowsRead[2]["Username"] = JStr("u1")
    /\ wire[1].outcome.exc = "ConnectionError"
    /\ wire[2].outcome.status = 201

C6_AuthFailureAbortsBeforeRows ==
    error = "SalesforceAuthenticationFailed" =>
        /\ pc = "crashed"
        /\ ~opened
        /\ rowsRead = <<>>
        /\ wire = <<>>
        /\ reports = <<>>

C6_Witness ==
    /\ error = "SalesforceAuthenticationFailed"
    /\ pc = "crashed"
    /\ invoked = 1
    /\ authCount = 1

\* "yes" or "y" in any mix of upper and lower case
Affirmative(a) ==
    \E t \in {<<"y", "e", "s">>, <<"y">>} :
        /\ Len(a) = Len(t)
        /\ \A i \in 1..Len(t) :
              \/ a[i] = t[i]
              \/ t[i] = "y" /\ a[i] = "Y"
              \/ t[i] = "e" /\ a[i] = "E"
              \/ t[i] = "s" /\ a[i] = "S"

\* main has passed the test of the environment and, in production, the prompt
PastPrompt ==
    pc \in {"run", "construct", "open", "loop", "done", "exited"}
    \/ (pc = "crashed" /\ error # "ValidationError")

\* C7: in production an answer other than yes/y (in any case) exits with
\* status 1 and the importer is never invoked; outside production, or with
\* an affirmative answer, the importer is invoked exactly once.
C7_ProductionGate ==
    PastPrompt =>
        IF ConfigEnv(envvar) = "prod" /\ ~Affirmative(answer)
        THEN pc = "exited" /\ exitCode = 1 /\ invoked = 0
        ELSE /\ pc # "exited"
             /\ exitCode # 1
             /\ invoked = IF pc = "run" THEN 0 ELSE 1

C7_Witness ==
    /\ pc = "exited"
    /\ exitCode = 1
    /\ envvar = Some("prod")
    /\ answer = <<"y", "e", "s", " ">>
    /\ invoked = 0

(***************************************************************************)
(* Properties of parse_json_body (SpecParse)                               *)
(***************************************************************************)
RECURSIVE JsonTextsUpTo(_)
\* The JSON texts of the body alphabet nested at most d deep.
JsonTextsUpTo(d) ==
    IF d = 0
    THEN {[i \in 1..k |-> "1"] : k \in 1..MaxBodyLen} \cup {<<"[", "]">>}
    ELSE JsonTextsUpTo(d - 1)
         \cup {<<"[">> \o t \o <<"]">> : t \in JsonTextsUpTo(d - 1)}

IsJsonText(body) == body \in JsonTextsUpTo(MaxBodyLen)

RECURSIVE Written(_)
\* The text a decoded value is written as.
Written(v) ==
    IF v.kind = "num"
    THEN [i \in 1..(CHOOSE k \in 0..MaxBodyLen : Repunit(k) = v.n) |-> "1"]
    ELSE <<"[">> \o (IF v.items = <<>> THEN <<>> ELSE Written(v.items[1]))
         \o <<"]">>

\* C8 (as claimed): parse_json_body raises no decode error; a JSON body comes
\* back decoded, any other body as the mapping with "response" the raw text
\* and "message" "decode failed".
C8_FallbackSaysDecodeFailed ==
    pc = "parsed" =>
        /\ parsed.kind = "return"
        /\ IF IsJsonText(resp.text)
           THEN Written(parsed.value) = resp.text
           ELSE parsed.value = [message |-> "decode failed",
                                response |-> resp.text]

\* C8 (amended): as claimed, but the mapping's "message" is
\* "response.json() failed".
C8_FallbackMapping ==
    pc = "parsed" =>
        /\ parsed.kind = "return"
        /\ IF IsJsonText(resp.text)
           THEN /\ parsed.value.kind \in {"num", "arr"}
                /\ Written(parsed.value) = resp.text
           ELSE parsed.value = [message |-> "response.json() failed",
                                response |-> resp.text]

C8_Witness ==
    /\ pc = "parsed"
    /\ resp.text = <<"[", "1", "x">>
    /\ parsed.kind = "return"
    /\ parsed.value.response = <<"[", "1", "x">>

====
